---- MODULE Spec2Model ----
(***************************************************************************)
(* Cloud provider abstraction layer of drone-search-and-rescue             *)
(* (src/shared/cloud): the provider factory, the configuration loader,     *)
(* the error wrapper and the AWS / Azure provider operations.              *)
(*                                                                         *)
(* JavaScript values are modelled as follows.  Strings are TLA+ strings.   *)
(* Objects are records.  An absent object is the record `undefined`, an    *)
(* absent string is the string NoString.  A completed call is a record     *)
(* [outcome, value]: outcome "return" with the returned value, or outcome  *)
(* "throw" with the thrown error object.                                   *)
(***************************************************************************)
EXTENDS Integers, Sequences, FiniteSets, TLC

VARIABLES
    currentProvider,  \* CloudProviderFactory.currentProvider
    nextId,           \* identity of the next provider object that `new` creates
    evicted,          \* history: the instance the last evicting clearProvider removed
    firstServed,      \* history: instance of the first successful getProvider since the last clearProvider
    firstConfig,      \* history: configuration argument of that first successful call
    ret,              \* the last completed call: [op, arg, outcome, value]
    env,              \* process.env
    envWrites,        \* number of assignments made to process.env
    loaderConfig,     \* ConfigLoader.config
    call,             \* the provider operation in flight: its position and locals
    vendorLog         \* the vendor SDK requests of the last provider operation, with their responses

factoryVars == <<currentProvider, nextId, evicted, firstServed, firstConfig>>

loaderVars == <<env, envWrites, loaderConfig>>

providerVars == <<call, vendorLog>>

vars == <<factoryVars, ret, loaderVars, providerVars>>

(***************************************************************************)
(* Bounds                                                                  *)
(***************************************************************************)
\* number of provider objects constructed in one behaviour
MaxInstances == 2

\* number of assignments to process.env in one behaviour
MaxEnvWrites == 1

(***************************************************************************)
(* JavaScript values                                                       *)
(***************************************************************************)
undefined == [undefined |-> TRUE]

NoString == "<undefined>"

Return(v) == [outcome |-> "return", value |-> v]

Throw(e) == [outcome |-> "throw", value |-> e]

\* new Error(message)
Error(message) == [name |-> "Error", message |-> message]

(***************************************************************************)
(* types.ts: CloudConfig                                                   *)
(***************************************************************************)
CloudProvider == {"aws", "azure"}

AwsCredentials ==
    { [accessKeyId |-> "test-key", secretAccessKey |-> "test-secret"],
      [accessKeyId |-> "other-key", secretAccessKey |-> "other-secret"] }

AzureCredentials ==
    { [tenantId |-> "test-tenant", clientId |-> "test-client",
       clientSecret |-> "test-secret", subscriptionId |-> "test-subscription",
       storageConnectionString |-> "test-connection-string"] }

\* The configurations callers pass to getProvider: the declared shape, plus a
\* provider value outside the declared union (the test's 'invalid' as any).
CallerConfigs ==
    [ provider : CloudProvider \cup {"invalid"},
      credentials : [ region : {"us-east-1"},
                      aws : AwsCredentials \cup {undefined},
                      azure : AzureCredentials \cup {undefined} ] ]

\* a supported provider value together with its matching credential block
HasMatchingCredentials(config) ==
    \/ config.provider = "aws" /\ config.credentials.aws # undefined
    \/ config.provider = "azure" /\ config.credentials.azure # undefined

(***************************************************************************)
(* Provider construction                                                   *)
(***************************************************************************)
\* new AWSProvider(config): BaseCloudProvider stores config, then the
\* credential check; the object created has identity id.
AWSProvider(id, config) ==
    IF config.credentials.aws = undefined
    THEN Throw(Error("AWS credentials not provided"))
    ELSE Return([id |-> id, class |-> "AWSProvider", config |-> config])

\* new AzureProvider(config)
AzureProvider(id, config) ==
    IF config.credentials.azure = undefined
    THEN Throw(Error("Azure credentials not provided"))
    ELSE Return([id |-> id, class |-> "AzureProvider", config |-> config])

\* BaseCloudProvider.getConfig()
getConfig(provider) == provider.config

(***************************************************************************)
(* CloudProviderFactory                                                    *)
(***************************************************************************)
\* ConstructProvider with the break of case 'aws' missing: control falls
\* through into case 'azure'.
ConstructProvider_FallThrough(id, config) ==
    CASE config.provider \in {"aws", "azure"} ->
           IF config.provider = "aws" /\ config.credentials.aws = undefined
           THEN [result |-> Throw(Error("AWS credentials not provided")),
                 currentProvider |-> undefined]
           ELSE IF config.credentials.azure = undefined
           THEN [result |-> Throw(Error("Azure credentials not provided")),
                 currentProvider |-> undefined]
           ELSE LET made == AzureProvider(id, config)
                IN  IF made.outcome = "throw"
                    THEN [result |-> made, currentProvider |-> undefined]
                    ELSE [result |-> made, currentProvider |-> made.value]
      [] OTHER ->
           [result |-> Throw(Error("Unsupported cloud provider: " \o config.provider)),
            currentProvider |-> undefined]

\* ConstructProvider whose default case falls back to AWS instead of throwing.
ConstructProvider_DefaultAws(id, config) ==
    CASE config.provider = "azure" ->
           IF config.credentials.azure = undefined
           THEN [result |-> Throw(Error("Azure credentials not provided")),
                 currentProvider |-> undefined]
           ELSE LET made == AzureProvider(id, config)
                IN  IF made.outcome = "throw"
                    THEN [result |-> made, currentProvider |-> undefined]
                    ELSE [result |-> made, currentProvider |-> made.value]
      [] OTHER ->
           IF config.credentials.aws = undefined
           THEN [result |-> Throw(Error("AWS credentials not provided")),
                 currentProvider |-> undefined]
           ELSE LET made == AWSProvider(id, config)
                IN  IF made.outcome = "throw"
                    THEN [result |-> made, currentProvider |-> undefined]
                    ELSE [result |-> made, currentProvider |-> made.value]

\* ConstructProvider that caches the object under construction before the
\* checks, so that a failed call leaves it in the cache.
ConstructProvider_CachesEarly(id, config) ==
    CASE config.provider = "aws" /\ config.credentials.aws # undefined ->
           [result |-> AWSProvider(id, config), currentProvider |-> AWSProvider(id, config).value]
      [] config.provider = "azure" /\ config.credentials.azure # undefined ->
           [result |-> AzureProvider(id, config),
            currentProvider |-> AzureProvider(id, config).value]
      [] config.provider = "aws" ->
           [result |-> Throw(Error("AWS credentials not provided")),
            currentProvider |-> [id |-> id, class |-> "AWSProvider", config |-> config]]
      [] config.provider = "azure" ->
           [result |-> Throw(Error("Azure credentials not provided")),
            currentProvider |-> [id |-> id, class |-> "AzureProvider", config |-> config]]
      [] OTHER ->
           [result |-> Throw(Error("Unsupported cloud provider: " \o config.provider)),
            currentProvider |-> [id |-> id, class |-> "BaseCloudProvider", config |-> config]]

\* switch (config.provider) of getProvider, reached with an empty cache:
\* the completion of the call and the value of currentProvider after it.
ConstructProvider(id, config) ==
    CASE config.provider = "aws" ->
           IF config.credentials.aws = undefined
           THEN [result |-> Throw(Error("AWS credentials not provided")),
                 currentProvider |-> undefined]
           ELSE LET made == AWSProvider(id, config)
                IN  IF made.outcome = "throw"
                    THEN [result |-> made, currentProvider |-> undefined]
                    ELSE [result |-> made, currentProvider |-> made.value]
      [] config.provider = "azure" ->
           IF config.credentials.azure = undefined
           THEN [result |-> Throw(Error("Azure credentials not provided")),
                 currentProvider |-> undefined]
           ELSE LET made == AzureProvider(id, config)
                IN  IF made.outcome = "throw"
                    THEN [result |-> made, currentProvider |-> undefined]
                    ELSE [result |-> made, currentProvider |-> made.value]
      [] OTHER ->
           [result |-> Throw(Error("Unsupported cloud provider: " \o config.provider)),
            currentProvider |-> undefined]

\* getProvider that reuses the cached instance only for an equal configuration.
getProvider_RebuildOnNewConfig(cur, id, config) ==
    IF cur # undefined /\ cur.config = config
    THEN [result |-> Return(cur), currentProvider |-> cur]
    ELSE ConstructProvider(id, config)

\* getProvider(config) called with cache `cur`
getProvider(cur, id, config) ==
    IF cur # undefined
    THEN [result |-> Return(cur), currentProvider |-> cur]
    ELSE ConstructProvider(id, config)

\* The factory state after a getProvider call, with the history of the call.
GetProviderEffect(config, r) ==
    /\ currentProvider' = r.currentProvider
    /\ nextId' = IF r.currentProvider # currentProvider THEN nextId + 1 ELSE nextId
    /\ ret' = [op |-> "getProvider", arg |-> config,
               outcome |-> r.result.outcome, value |-> r.result.value]
    /\ IF r.result.outcome = "return" /\ firstServed = undefined
       THEN firstServed' = r.result.value /\ firstConfig' = config
       ELSE UNCHANGED <<firstServed, firstConfig>>
    /\ UNCHANGED <<evicted, loaderVars, providerVars>>

GetProvider(config) ==
    /\ currentProvider # undefined \/ nextId <= MaxInstances
    /\ GetProviderEffect(config, getProvider(currentProvider, nextId, config))

\* clearProvider that leaves the cached instance in place.
clearProvider_NoEvict(cur) == cur

\* the cache after clearProvider()
clearProvider(cur) == undefined

ClearProvider ==
    /\ currentProvider' = clearProvider(currentProvider)
    /\ evicted' = IF currentProvider = undefined THEN evicted ELSE currentProvider
    /\ firstServed' = undefined
    /\ firstConfig' = undefined
    /\ ret' = [op |-> "clearProvider", arg |-> undefined,
               outcome |-> "return", value |-> undefined]
    /\ UNCHANGED <<nextId, loaderVars, providerVars>>

(***************************************************************************)
(* process.env and ConfigLoader                                            *)
(***************************************************************************)
EnvNames ==
    { "CLOUD_PROVIDER", "CLOUD_REGION", "AWS_ACCESS_KEY_ID", "AWS_SECRET_ACCESS_KEY",
      "AZURE_TENANT_ID", "AZURE_CLIENT_ID", "AZURE_CLIENT_SECRET",
      "AZURE_SUBSCRIPTION_ID", "AZURE_STORAGE_CONNECTION_STRING" }

\* the environment the test setup installs
JestEnv ==
    [ CLOUD_PROVIDER |-> "aws", CLOUD_REGION |-> "us-east-1",
      AWS_ACCESS_KEY_ID |-> "test-key", AWS_SECRET_ACCESS_KEY |-> "test-secret",
      AZURE_TENANT_ID |-> "test-tenant", AZURE_CLIENT_ID |-> "test-client",
      AZURE_CLIENT_SECRET |-> "test-secret", AZURE_SUBSCRIPTION_ID |-> "test-subscription",
      AZURE_STORAGE_CONNECTION_STRING |-> "test-connection-string" ]

\* values a variable is given: deleted (NoString), empty, or a value
EnvValues(name) ==
    {NoString, ""} \cup
        CASE name = "CLOUD_PROVIDER" -> {"aws", "azure", "AZURE", "gcp"}
          [] name = "CLOUD_REGION" -> {"us-east-1", "eastus"}
          [] OTHER -> {JestEnv[name]}

\* JavaScript truthiness of an optional string
Truthy(s) == s # NoString /\ s # ""

\* a || b on optional strings
Or(a, b) == IF Truthy(a) THEN a ELSE b

UpperLetters == "ABCDEFGHIJKLMNOPQRSTUVWXYZ"

LowerLetters == "abcdefghijklmnopqrstuvwxyz"

LowerChar(c) ==
    IF \E i \in 1..Len(UpperLetters) : SubSeq(UpperLetters, i, i) = c
    THEN LET i == CHOOSE i \in 1..Len(UpperLetters) : SubSeq(UpperLetters, i, i) = c
         IN  SubSeq(LowerLetters, i, i)
    ELSE c

\* String.prototype.toLowerCase
RECURSIVE toLowerCase(_)
toLowerCase(s) ==
    IF Len(s) = 0 THEN ""
    ELSE LowerChar(SubSeq(s, 1, 1)) \o toLowerCase(SubSeq(s, 2, Len(s)))

\* getRequiredEnv that rejects only an unset variable (value === undefined).
getRequiredEnv_UnsetOnly(e, name) ==
    IF e[name] = NoString
    THEN Throw(Error("Required environment variable " \o name \o " is not set"))
    ELSE Return(e[name])

\* ConfigLoader.getRequiredEnv(name) under environment e
getRequiredEnv(e, name) ==
    IF ~Truthy(e[name])
    THEN Throw(Error("Required environment variable " \o name \o " is not set"))
    ELSE Return(e[name])

\* the first throw among completions evaluated in order, or undefined
FirstThrow(completions) ==
    IF \E i \in 1..Len(completions) : completions[i].outcome = "throw"
    THEN completions[CHOOSE i \in 1..Len(completions) :
                        /\ completions[i].outcome = "throw"
                        /\ \A j \in 1..(i - 1) : completions[j].outcome = "return"]
    ELSE undefined

\* the provider loadConfig selects when it reads the environment
EnvProvider(e, provider) == toLowerCase(Or(Or(provider, e["CLOUD_PROVIDER"]), "aws"))

\* the part of loadConfig that reads the environment: the completion of the
\* call and the value of ConfigLoader.config after it
ReadEnvironment(cached, e, provider) ==
    LET envProvider == EnvProvider(e, provider)
        region == Or(e["CLOUD_REGION"], "us-east-1")
    IN  CASE envProvider = "aws" ->
               LET reads == << getRequiredEnv(e, "AWS_ACCESS_KEY_ID"),
                               getRequiredEnv(e, "AWS_SECRET_ACCESS_KEY") >>
                   made == [ provider |-> envProvider,
                             credentials |->
                               [ region |-> region,
                                 aws |-> [ accessKeyId |-> reads[1].value,
                                           secretAccessKey |-> reads[2].value ],
                                 azure |-> undefined ] ]
               IN  IF FirstThrow(reads) # undefined
                   THEN [result |-> FirstThrow(reads), config |-> cached]
                   ELSE [result |-> Return(made), config |-> made]
          [] envProvider = "azure" ->
               LET reads == << getRequiredEnv(e, "AZURE_TENANT_ID"),
                               getRequiredEnv(e, "AZURE_CLIENT_ID"),
                               getRequiredEnv(e, "AZURE_CLIENT_SECRET"),
                               getRequiredEnv(e, "AZURE_SUBSCRIPTION_ID"),
                               getRequiredEnv(e, "AZURE_STORAGE_CONNECTION_STRING") >>
                   made == [ provider |-> envProvider,
                             credentials |->
                               [ region |-> region,
                                 aws |-> undefined,
                                 azure |-> [ tenantId |-> reads[1].value,
                                             clientId |-> reads[2].value,
                                             clientSecret |-> reads[3].value,
                                             subscriptionId |-> reads[4].value,
                                             storageConnectionString |-> reads[5].value ] ] ]
               IN  IF FirstThrow(reads) # undefined
                   THEN [result |-> FirstThrow(reads), config |-> cached]
                   ELSE [result |-> Return(made), config |-> made]
          [] OTHER ->
               [result |-> Throw(Error("Unsupported cloud provider: " \o envProvider)),
                config |-> cached]

\* loadConfig that merges the credentials it reads into the cached ones.
loadConfig_MergesCached(cached, e, provider) ==
    IF cached # undefined /\ ~Truthy(provider)
    THEN [result |-> Return(cached), config |-> cached]
    ELSE LET r == ReadEnvironment(cached, e, provider)
             merged == [ r.config EXCEPT
                           !.credentials.aws =
                             IF @ = undefined THEN cached.credentials.aws ELSE @,
                           !.credentials.azure =
                             IF @ = undefined THEN cached.credentials.azure ELSE @ ]
         IN  IF cached = undefined \/ r.result.outcome = "throw"
             THEN r
             ELSE [result |-> Return(merged), config |-> merged]

\* loadConfig that answers from the cache whatever provider is requested.
loadConfig_CacheFirst(cached, e, provider) ==
    IF cached # undefined
    THEN [result |-> Return(cached), config |-> cached]
    ELSE ReadEnvironment(cached, e, provider)

\* loadConfig(provider) with ConfigLoader.config = cached under environment e
loadConfig(cached, e, provider) ==
    IF cached # undefined /\ ~Truthy(provider)
    THEN [result |-> Return(cached), config |-> cached]
    ELSE ReadEnvironment(cached, e, provider)

\* the arguments callers pass to loadConfig: none, or a CloudProvider
LoadArgs == {NoString} \cup CloudProvider

LoadConfig(provider) ==
    LET r == loadConfig(loaderConfig, env, provider)
    IN  /\ loaderConfig' = r.config
        /\ ret' = [op |-> "loadConfig", arg |-> provider,
                   outcome |-> r.result.outcome, value |-> r.result.value]
        /\ UNCHANGED <<factoryVars, env, envWrites, providerVars>>

\* const config = configLoader.loadConfig(...);
\* const provider = cloudProvider.getProvider(config);
\* the second statement runs only if the first returned.
GetProviderLoaded ==
    /\ ret.op = "loadConfig"
    /\ ret.outcome = "return"
    /\ GetProvider(ret.value)

\* process.env[name] = value, or delete process.env[name]
SetEnv(name, value) ==
    /\ envWrites < MaxEnvWrites
    /\ env[name] # value
    /\ env' = [env EXCEPT ![name] = value]
    /\ envWrites' = envWrites + 1
    /\ ret' = [op |-> "setEnv", arg |-> undefined, outcome |-> "return", value |-> undefined]
    /\ UNCHANGED <<factoryVars, loaderConfig, providerVars>>

(***************************************************************************)
(* Specification of the factory: any caller, any configuration             *)
(***************************************************************************)
Init ==
    /\ env = JestEnv
    /\ envWrites = 0
    /\ loaderConfig = undefined
    /\ call = [op |-> "idle"]
    /\ vendorLog = << >>
    /\ currentProvider = undefined
    /\ nextId = 1
    /\ evicted = undefined
    /\ firstServed = undefined
    /\ firstConfig = undefined
    /\ ret = [op |-> "none", arg |-> undefined, outcome |-> "return", value |-> undefined]

NextFactory ==
    \/ \E config \in CallerConfigs : GetProvider(config)
    \/ ClearProvider

SpecFactory == Init /\ [][NextFactory]_vars

(***************************************************************************)
(* Specification of the documented flow: the environment changes, the      *)
(* caller loads a configuration and hands it to the factory                *)
(***************************************************************************)
NextLoader ==
    \/ \E name \in EnvNames : \E value \in EnvValues(name) : SetEnv(name, value)
    \/ \E provider \in LoadArgs : LoadConfig(provider)
    \/ GetProviderLoaded
    \/ ClearProvider

SpecLoader == Init /\ [][NextLoader]_vars

(***************************************************************************)
(* Specification of both ways to a provider: the caller builds a           *)
(* CloudConfig itself, or loads one from the environment                   *)
(***************************************************************************)
\* configurations of the declared CloudConfig type built by the caller
DirectConfigs ==
    { config \in CallerConfigs :
        /\ config.provider \in CloudProvider
        /\ config.credentials.aws \in
             {undefined, [accessKeyId |-> "test-key", secretAccessKey |-> "test-secret"]} }

NextConfig ==
    \/ \E config \in DirectConfigs : GetProvider(config)
    \/ ClearProvider
    \/ \E value \in EnvValues("CLOUD_PROVIDER") : SetEnv("CLOUD_PROVIDER", value)
    \/ \E provider \in LoadArgs : LoadConfig(provider)
    \/ GetProviderLoaded

SpecConfig == Init /\ [][NextConfig]_vars

(***************************************************************************)
(* Vendor SDK boundary.  A vendor call settles as Resolve(value) or        *)
(* Reject(error).  An operation's script is the sequence of settlements    *)
(* of the vendor calls it awaits, in order; its log is the sequence of     *)
(* the calls it actually issued, each with its settlement.                 *)
(***************************************************************************)
Resolve(v) == [outcome |-> "resolve", value |-> v]

Reject(e) == [outcome |-> "reject", value |-> e]

\* the error a failing vendor call rejects with
VendorError == [name |-> "ServiceException", message |-> "request failed"]

\* String(error), as `${error}` computes it
ErrorToString(e) == IF e.message = "" THEN e.name ELSE e.name \o ": " \o e.message

\* catch (error) { throw new Error(`<prefix>: ${error}`) }
Rethrow(prefix, e) == Throw(Error(prefix \o ": " \o ErrorToString(e)))

Exchange(request, settlement) == [req |-> request, res |-> settlement]

\* an optional array: undefined, or [array |-> <<...>>]
Array(items) == [array |-> items]

\* String.prototype.startsWith
StartsWith(str, prefix) ==
    Len(str) >= Len(prefix) /\ SubSeq(str, 1, Len(prefix)) = prefix

\* String.prototype.includes
Includes(str, part) ==
    \E i \in 1..(Len(str) - Len(part) + 1) : SubSeq(str, i, i + Len(part) - 1) = part

(***************************************************************************)
(* Compute: instance descriptors and status mapping                        *)
(***************************************************************************)
\* number of entries in an Azure instance view's statuses
MaxStatuses == 2

EC2StateNames == {"pending", "running", "shutting-down", "terminated", "stopping", "stopped"}

\* EC2 instance descriptors the vendor answers with
EC2Instances ==
    [ InstanceId : {"i-1", NoString},
      State : {undefined} \cup [Name : EC2StateNames \cup {NoString}],
      PublicIpAddress : {"203.0.113.7"},
      PrivateIpAddress : {"10.0.0.7"} ]

\* instance.State?.Name
EC2StateName(instance) ==
    IF instance.State = undefined THEN NoString ELSE instance.State.Name

\* mapEC2Status whose default branch answers 'stopped'.
mapEC2Status_DefaultStopped(status) ==
    CASE status = "running" -> "running"
      [] OTHER -> "stopped"

\* AWSProvider.mapEC2Status
mapEC2Status(status) ==
    CASE status = "running" -> "running"
      [] status = "stopped" -> "stopped"
      [] OTHER -> "terminated"

\* AWSProvider.mapEC2InstanceToComputeInstance
mapEC2InstanceToComputeInstance(instance) ==
    [ id |-> Or(instance.InstanceId, ""),
      status |-> mapEC2Status(EC2StateName(instance)),
      publicIp |-> instance.PublicIpAddress,
      privateIp |-> instance.PrivateIpAddress ]

\* status codes of an Azure instance view entry; NoString is an entry without code
AzureStatusCodes ==
    { NoString, "ProvisioningState/succeeded", "PowerState/running",
      "PowerState/stopping", "PowerState/stopped", "PowerState/deallocated" }

RECURSIVE SeqsUpTo(_, _)
SeqsUpTo(S, n) ==
    IF n = 0 THEN { << >> }
    ELSE SeqsUpTo(S, n - 1) \cup
         { Append(q, x) : q \in { t \in SeqsUpTo(S, n - 1) : Len(t) = n - 1 }, x \in S }

\* instance views the vendor answers with
AzureInstanceViews ==
    {undefined, [statuses |-> undefined]} \cup
        { [statuses |-> Array(q)] : q \in SeqsUpTo([code : AzureStatusCodes], MaxStatuses) }

\* virtual machines the vendor answers with; nic is networkProfile?.networkInterfaces?.[0]?.id
AzureVMs == { [name |-> "vm-1", nic |-> "nic-1"], [name |-> NoString, nic |-> NoString] }

\* instanceView.statuses.find(s => s.code?.startsWith('PowerState/')): the
\* first such entry, or undefined
FindPowerState(statuses) ==
    LET hits == { i \in 1..Len(statuses) :
                    /\ statuses[i].code # NoString
                    /\ StartsWith(statuses[i].code, "PowerState/") }
    IN  IF hits = {} THEN undefined
        ELSE statuses[CHOOSE i \in hits : \A j \in hits : i <= j]

\* powerState?.code?.includes(part)
PowerStateIncludes(powerState, part) ==
    /\ powerState # undefined
    /\ powerState.code # NoString
    /\ Includes(powerState.code, part)

\* the status computed by mapAzureVMToComputeInstance
AzureStatus(instanceView) ==
    IF instanceView # undefined /\ instanceView.statuses # undefined
    THEN LET powerState == FindPowerState(instanceView.statuses.array)
         IN  IF PowerStateIncludes(powerState, "running") THEN "running"
             ELSE IF PowerStateIncludes(powerState, "stopped") THEN "stopped"
             ELSE "terminated"
    ELSE "terminated"

\* AzureProvider.mapAzureVMToComputeInstance
mapAzureVMToComputeInstance(vm, instanceView) ==
    [ id |-> Or(vm.name, ""),
      status |-> AzureStatus(instanceView),
      publicIp |-> vm.nic,
      privateIp |-> NoString ]

(***************************************************************************)
(* Compute operations                                                      *)
(***************************************************************************)
\* the options callers pass (userData is left out, as in the tests)
ComputeOptions ==
    { [name |-> "test-instance", instanceType |-> "t2.micro", imageId |-> "ami-12345",
       userData |-> NoString] }

InstanceIds == {"i-1"}

\* the log of an operation awaiting requests[1], requests[2], ... under a
\* script: every call up to and including the first that rejects
LogOf(requests, script) ==
    LET n == IF \E i \in 1..Len(script) : script[i].outcome = "reject"
             THEN CHOOSE i \in 1..Len(script) :
                    /\ script[i].outcome = "reject"
                    /\ \A j \in 1..(i - 1) : script[j].outcome = "resolve"
             ELSE Len(script)
    IN  [i \in 1..n |-> Exchange(requests[i], script[i])]

\* the error of the first rejected call of a script, or undefined
FirstReject(script) ==
    IF \E i \in 1..Len(script) : script[i].outcome = "reject"
    THEN script[CHOOSE i \in 1..Len(script) :
                  /\ script[i].outcome = "reject"
                  /\ \A j \in 1..(i - 1) : script[j].outcome = "resolve"].value
    ELSE undefined

\* AWSProvider.createComputeInstance: one RunInstances call
AWS_createComputeInstance(options, script) ==
    LET request == [ api |-> "ec2.RunInstances", ImageId |-> options.imageId,
                     InstanceType |-> options.instanceType, MinCount |-> 1, MaxCount |-> 1,
                     UserData |-> NoString, Name |-> options.name ]
        response == script[1].value
    IN  [ log |-> LogOf(<<request>>, script),
          result |->
            IF FirstReject(script) # undefined
            THEN Rethrow("Failed to create compute instance", FirstReject(script))
            ELSE IF response.Instances = undefined \/ Len(response.Instances.array) = 0
            THEN Rethrow("Failed to create compute instance",
                         Error("Failed to create EC2 instance"))
            ELSE Return(mapEC2InstanceToComputeInstance(response.Instances.array[1])) ]

\* AWSProvider.getComputeInstance: one DescribeInstances call;
\* response.instance is response.Reservations?.[0]?.Instances?.[0]
AWS_getComputeInstance(instanceId, script) ==
    LET request == [api |-> "ec2.DescribeInstances", InstanceIds |-> <<instanceId>>]
        response == script[1].value
    IN  [ log |-> LogOf(<<request>>, script),
          result |->
            IF FirstReject(script) # undefined
            THEN Rethrow("Failed to get compute instance", FirstReject(script))
            ELSE IF response.instance = undefined
            THEN Rethrow("Failed to get compute instance",
                         Error("Instance " \o instanceId \o " not found"))
            ELSE Return(mapEC2InstanceToComputeInstance(response.instance)) ]

\* AWSProvider.terminateInstance: one TerminateInstances call, awaited until
\* the vendor answers the request
AWS_terminateInstance(instanceId, script) ==
    LET request == [api |-> "ec2.TerminateInstances", InstanceIds |-> <<instanceId>>]
    IN  [ log |-> LogOf(<<request>>, script),
          result |->
            IF FirstReject(script) # undefined
            THEN Rethrow("Failed to terminate instance", FirstReject(script))
            ELSE Return(undefined) ]

\* AzureProvider.createComputeInstance: beginCreateOrUpdate, pollUntilDone,
\* instanceView, all inside one try
Azure_createComputeInstance(provider, options, script) ==
    LET requests ==
          << [ api |-> "virtualMachines.beginCreateOrUpdate",
               resourceGroup |-> "dsar-resource-group", name |-> options.name,
               location |-> provider.config.credentials.region,
               vmSize |-> options.instanceType, imageId |-> options.imageId,
               userData |-> NoString ],
             [ api |-> "poller.pollUntilDone" ],
             [ api |-> "virtualMachines.instanceView",
               resourceGroup |-> "dsar-resource-group", name |-> options.name ] >>
    IN  [ log |-> LogOf(requests, script),
          result |->
            IF FirstReject(script) # undefined
            THEN Rethrow("Failed to create compute instance", FirstReject(script))
            ELSE Return(mapAzureVMToComputeInstance(script[2].value, script[3].value)) ]

\* AzureProvider.getComputeInstance: virtualMachines.get, then instanceView
Azure_getComputeInstance(instanceId, script) ==
    LET requests ==
          << [ api |-> "virtualMachines.get",
               resourceGroup |-> "dsar-resource-group", name |-> instanceId ],
             [ api |-> "virtualMachines.instanceView",
               resourceGroup |-> "dsar-resource-group", name |-> instanceId ] >>
    IN  [ log |-> LogOf(requests, script),
          result |->
            IF FirstReject(script) # undefined
            THEN Rethrow("Failed to get compute instance", FirstReject(script))
            ELSE Return(mapAzureVMToComputeInstance(script[1].value, script[2].value)) ]

\* what beginDelete hands back: a poller, or a promise of one, which has no
\* pollUntilDone of its own
Poller == [poller |-> TRUE]

PromiseOfPoller == [poller |-> FALSE]

\* terminateInstance that returns once beginDelete has answered, unpolled.
Azure_terminateInstance_Unpolled(instanceId, script) ==
    LET request == [ api |-> "virtualMachines.beginDelete",
                     resourceGroup |-> "dsar-resource-group", name |-> instanceId ]
    IN  [ log |-> << Exchange(request, script[1]) >>,
          result |->
            IF script[1].outcome = "reject"
            THEN Rethrow("Failed to terminate instance", script[1].value)
            ELSE Return(undefined) ]

\* AzureProvider.terminateInstance: beginDelete(...).pollUntilDone(), awaited
\* until the delete operation has been polled to completion
Azure_terminateInstance(instanceId, script) ==
    LET requests ==
          << [ api |-> "virtualMachines.beginDelete",
               resourceGroup |-> "dsar-resource-group", name |-> instanceId ],
             [ api |-> "poller.pollUntilDone" ] >>
    IN  [ log |-> LogOf(requests, script),
          result |->
            IF FirstReject(script) # undefined
            THEN Rethrow("Failed to terminate instance", FirstReject(script))
            ELSE IF script[1].value = PromiseOfPoller
            THEN Rethrow("Failed to terminate instance",
                         [ name |-> "TypeError",
                           message |-> "beginDelete(...).pollUntilDone is not a function" ])
            ELSE Return(undefined) ]

\* what the vendor can answer to the calls of each operation
EC2RunResponses ==
    { [Instances |-> undefined], [Instances |-> Array(<< >>)] } \cup
    { [Instances |-> Array(<<i>>)] : i \in EC2Instances } \cup
    { [Instances |-> Array(<<i, i>>)] : i \in {x \in EC2Instances : x.InstanceId = "i-1"} }

EC2DescribeResponses ==
    { [instance |-> undefined] } \cup { [instance |-> i] : i \in EC2Instances }

\* scripts of n calls of which the first n - 1 resolve with the given values
\* and the last either rejects or resolves with one of `last`
Scripts1(last) == { <<Reject(VendorError)>> } \cup { <<Resolve(v)>> : v \in last }

Scripts2(first, last) ==
    { <<Reject(VendorError)>> } \cup
    { <<Resolve(a), Reject(VendorError)>> : a \in first } \cup
    { <<Resolve(a), Resolve(b)>> : a \in first, b \in last }

Scripts3(first, second, last) ==
    { <<Reject(VendorError)>> } \cup
    { <<Resolve(a), Reject(VendorError)>> : a \in first } \cup
    { <<Resolve(a), Resolve(b), Reject(VendorError)>> : a \in first, b \in second } \cup
    { <<Resolve(a), Resolve(b), Resolve(c)>> : a \in first, b \in second, c \in last }

\* the provider operation completes: its result and its vendor log
Complete(op, arg, r) ==
    /\ ret' = [op |-> op, arg |-> arg, outcome |-> r.result.outcome, value |-> r.result.value]
    /\ vendorLog' = r.log
    /\ UNCHANGED <<factoryVars, loaderVars, call>>

Ready == call.op = "idle" /\ currentProvider # undefined

IsAWS == currentProvider.class = "AWSProvider"

CreateComputeInstance(options) ==
    /\ Ready
    /\ IF IsAWS
       THEN \E script \in Scripts1(EC2RunResponses) :
              Complete("createComputeInstance", options,
                       AWS_createComputeInstance(options, script))
       ELSE \E script \in Scripts3({Poller}, AzureVMs, AzureInstanceViews) :
              Complete("createComputeInstance", options,
                       Azure_createComputeInstance(currentProvider, options, script))

GetComputeInstance(instanceId) ==
    /\ Ready
    /\ IF IsAWS
       THEN \E script \in Scripts1(EC2DescribeResponses) :
              Complete("getComputeInstance", instanceId,
                       AWS_getComputeInstance(instanceId, script))
       ELSE \E script \in Scripts2(AzureVMs, AzureInstanceViews) :
              Complete("getComputeInstance", instanceId,
                       Azure_getComputeInstance(instanceId, script))

TerminateInstance(instanceId) ==
    /\ Ready
    /\ IF IsAWS
       THEN \E script \in Scripts1({undefined}) :
              Complete("terminateInstance", instanceId,
                       AWS_terminateInstance(instanceId, script))
       ELSE \E script \in Scripts2({Poller}, {undefined}) \cup {<<Resolve(PromiseOfPoller)>>} :
              Complete("terminateInstance", instanceId,
                       Azure_terminateInstance(instanceId, script))

(***************************************************************************)
(* Storage operations.  File contents are strings.                         *)
(***************************************************************************)
StorageOptionsSet ==
    { [container |-> "test-bucket", path |-> "test-file.txt", contentType |-> "text/plain"] }

FileContents == {"test content"}

\* Buffer.concat(chunks)
RECURSIVE Concat(_)
Concat(chunks) ==
    IF chunks = << >> THEN "" ELSE Head(chunks) \o Concat(Tail(chunks))

\* the chunk lists a download stream delivers
ChunkLists == { <<"test content">>, <<"test ", "content">>, << >> }

\* the URL the vendor gives a block blob
BlobUrl(container, path) ==
    "https://dsar.blob.core.windows.net/" \o container \o "/" \o path

\* AWSProvider.uploadFile: one PutObject call
AWS_uploadFile(options, data, script) ==
    LET request == [ api |-> "s3.PutObject", Bucket |-> options.container,
                     Key |-> options.path, Body |-> data,
                     ContentType |-> options.contentType ]
    IN  [ log |-> LogOf(<<request>>, script),
          result |->
            IF FirstReject(script) # undefined
            THEN Rethrow("Failed to upload file", FirstReject(script))
            ELSE Return("s3://" \o options.container \o "/" \o options.path) ]

\* AWSProvider.downloadFile: GetObject, then the body stream is drained
AWS_downloadFile(options, script) ==
    LET requests == << [ api |-> "s3.GetObject", Bucket |-> options.container,
                         Key |-> options.path ],
                       [ api |-> "stream.toArray" ] >>
    IN  [ log |-> LogOf(requests, script),
          result |->
            IF FirstReject(script) # undefined
            THEN Rethrow("Failed to download file", FirstReject(script))
            ELSE IF script[1].value.Body = undefined
            THEN Rethrow("Failed to download file", Error("No data received"))
            ELSE Return(Concat(script[2].value.array)) ]

\* AWSProvider.deleteFile: one DeleteObject call
AWS_deleteFile(options, script) ==
    LET request == [ api |-> "s3.DeleteObject", Bucket |-> options.container,
                     Key |-> options.path ]
    IN  [ log |-> LogOf(<<request>>, script),
          result |->
            IF FirstReject(script) # undefined
            THEN Rethrow("Failed to delete file", FirstReject(script))
            ELSE Return(undefined) ]

\* AzureProvider.uploadFile: one block blob upload
Azure_uploadFile(options, data, script) ==
    LET request == [ api |-> "blockBlob.upload", container |-> options.container,
                     blob |-> options.path, body |-> data, length |-> Len(data),
                     blobContentType |-> options.contentType ]
    IN  [ log |-> LogOf(<<request>>, script),
          result |->
            IF FirstReject(script) # undefined
            THEN Rethrow("Failed to upload file", FirstReject(script))
            ELSE Return(BlobUrl(options.container, options.path)) ]

\* AzureProvider.downloadFile: download(0), then the stream is iterated
Azure_downloadFile(options, script) ==
    LET requests == << [ api |-> "blockBlob.download", container |-> options.container,
                         blob |-> options.path, offset |-> 0 ],
                       [ api |-> "stream.iterate" ] >>
    IN  [ log |-> LogOf(requests, script),
          result |->
            IF FirstReject(script) # undefined
            THEN Rethrow("Failed to download file", FirstReject(script))
            ELSE IF script[1].value.readableStreamBody = undefined
            THEN Rethrow("Failed to download file",
                         [ name |-> "TypeError",
                           message |-> "downloadResponse.readableStreamBody is not async iterable" ])
            ELSE Return(Concat(script[2].value.array)) ]

\* AzureProvider.deleteFile: one blob delete
Azure_deleteFile(options, script) ==
    LET request == [ api |-> "blockBlob.delete", container |-> options.container,
                     blob |-> options.path ]
    IN  [ log |-> LogOf(<<request>>, script),
          result |->
            IF FirstReject(script) # undefined
            THEN Rethrow("Failed to delete file", FirstReject(script))
            ELSE Return(undefined) ]

Stream == [stream |-> TRUE]

\* a download: the request fails; it answers without a body; the body fails
\* while it is drained; or the body delivers its chunks
DownloadScripts(bodyField) ==
    { <<Reject(VendorError)>>,
      <<Resolve([b \in {bodyField} |-> undefined])>>,
      <<Resolve([b \in {bodyField} |-> Stream]), Reject(VendorError)>> } \cup
    { <<Resolve([b \in {bodyField} |-> Stream]), Resolve(Array(chunks))>> : chunks \in ChunkLists }

UploadFile(options, data) ==
    /\ Ready
    /\ \E script \in Scripts1({undefined}) :
         Complete("uploadFile", options,
                  IF IsAWS THEN AWS_uploadFile(options, data, script)
                  ELSE Azure_uploadFile(options, data, script))

DownloadFile(options) ==
    /\ Ready
    /\ IF IsAWS
       THEN \E script \in DownloadScripts("Body") :
              Complete("downloadFile", options, AWS_downloadFile(options, script))
       ELSE \E script \in DownloadScripts("readableStreamBody") :
              Complete("downloadFile", options, Azure_downloadFile(options, script))

DeleteFile(options) ==
    /\ Ready
    /\ \E script \in Scripts1({undefined}) :
         Complete("deleteFile", options,
                  IF IsAWS THEN AWS_deleteFile(options, script)
                  ELSE Azure_deleteFile(options, script))

(***************************************************************************)
(* ML inference                                                            *)
(***************************************************************************)
MLModelOptionsSet ==
    [ modelId : {"test-model"}, version : {NoString, "2"}, runtime : {NoString, "tensorflow"} ]

InferenceInputs == { [data |-> <<1, 2, 3, 4>>] }

\* JSON.stringify on the inputs above
JSONstringify(v) ==
    CASE v = [data |-> <<1, 2, 3, 4>>] -> "{\"data\":[1,2,3,4]}"

\* the response bodies an endpoint answers with
ResponseBodies == { "{\"label\":\"person\"}", "<html>" }

\* JSON.parse on the bodies above: the parsed value, or a SyntaxError
JSONparse(text) ==
    CASE text = "{\"label\":\"person\"}" -> Return([label |-> "person"])
      [] OTHER -> Throw([ name |-> "SyntaxError",
                          message |-> "Unexpected token < in JSON at position 0" ])

\* Date.now() - startTime, in ms
Latencies == {0, 42}

\* AWSProvider.runInference: one InvokeEndpoint call
AWS_runInference(options, input, latency, script) ==
    LET request == [ api |-> "sagemaker.InvokeEndpoint", EndpointName |-> options.modelId,
                     Body |-> JSONstringify(input) ]
        body == script[1].value.Body
    IN  [ log |-> LogOf(<<request>>, script),
          result |->
            IF FirstReject(script) # undefined
            THEN Rethrow("Failed to run inference", FirstReject(script))
            ELSE IF body = NoString
            THEN Rethrow("Failed to run inference", Error("No prediction received"))
            ELSE IF JSONparse(body).outcome = "throw"
            THEN Rethrow("Failed to run inference", JSONparse(body).value)
            ELSE Return([ predictions |-> JSONparse(body).value,
                          metadata |-> [ latency |-> latency,
                                         modelVersion |-> Or(options.version, "latest") ] ]) ]

\* AzureProvider.runInference: onlineEndpoints.get, fetch, response.json()
Azure_runInference(options, input, latency, script) ==
    LET requests ==
          << [ api |-> "onlineEndpoints.get", resourceGroup |-> "dsar-resource-group",
               name |-> options.modelId \o "-endpoint" ],
             [ api |-> "fetch", method |-> "POST", body |-> JSONstringify(input) ],
             [ api |-> "response.json" ] >>
    IN  [ log |-> LogOf(requests, script),
          result |->
            IF FirstReject(script) # undefined
            THEN Rethrow("Failed to run inference", FirstReject(script))
            ELSE IF ~script[2].value.ok
            THEN Rethrow("Failed to run inference",
                         Error("Inference failed with status "
                                 \o ToString(script[2].value.status)))
            ELSE Return([ predictions |-> script[3].value,
                          metadata |-> [ latency |-> latency,
                                         modelVersion |-> Or(options.version, "latest") ] ]) ]

Endpoint == [scoringUri |-> "https://dsar.inference.ml.azure.com/score", authToken |-> "token"]

\* an Azure inference: a call fails; the endpoint answers with an error status;
\* or it answers with predictions
AzureInferenceScripts ==
    { <<Reject(VendorError)>>,
      <<Resolve(Endpoint), Reject(VendorError)>>,
      <<Resolve(Endpoint), Resolve([ok |-> FALSE, status |-> 500])>>,
      <<Resolve(Endpoint), Resolve([ok |-> TRUE, status |-> 200]), Reject(VendorError)>>,
      <<Resolve(Endpoint), Resolve([ok |-> TRUE, status |-> 200]),
        Resolve([label |-> "person"])>> }

RunInference(options, input) ==
    /\ Ready
    /\ \E latency \in Latencies :
         IF IsAWS
         THEN \E script \in Scripts1([Body : ResponseBodies \cup {NoString}]) :
                Complete("runInference", options,
                         AWS_runInference(options, input, latency, script))
         ELSE \E script \in AzureInferenceScripts :
                Complete("runInference", options,
                         Azure_runInference(options, input, latency, script))

(***************************************************************************)
(* healthCheck: three probes awaited one after the other, each in its own  *)
(* try / catch                                                             *)
(***************************************************************************)
Pending == [outcome |-> "pending", value |-> undefined]

\* the vendor call each probe makes
ProbeRequest(class, service) ==
    IF class = "AWSProvider"
    THEN CASE service = "compute" -> [api |-> "ec2.DescribeInstances"]
           [] service = "storage" -> [ api |-> "s3.GetObject", Bucket |-> "test-bucket",
                                       Key |-> "test-file" ]
           [] service = "ml" -> [api |-> "sagemaker.CreateModel", ModelName |-> "test-model"]
    ELSE CASE service = "compute" -> [ api |-> "virtualMachines.list",
                                       resourceGroup |-> "dsar-resource-group" ]
           [] service = "storage" -> [api |-> "blobService.getProperties"]
           [] service = "ml" -> [api |-> "models.list", resourceGroup |-> "dsar-resource-group"]

\* the probe after `service`, in program order
NextProbe(service) ==
    CASE service = "compute" -> "storage"
      [] service = "storage" -> "ml"
      [] service = "ml" -> "return"

\* the flag set before the probe is awaited.
ProbeFlag_SetBeforeAwait(flag, settlement) == TRUE

\* try { await probe; services.x = true } catch {}: the flag after the probe
ProbeFlag(flag, settlement) == IF settlement.outcome = "resolve" THEN TRUE ELSE flag

\* the status computed from some() instead of every().
HealthStatus_Some(services) ==
    IF services.compute \/ services.storage \/ services.ml THEN "healthy" ELSE "unhealthy"

\* Object.values(services).every(s => s) ? 'healthy' : 'unhealthy'
HealthStatus(services) ==
    IF services.compute /\ services.storage /\ services.ml THEN "healthy" ELSE "unhealthy"

HealthCheckStart ==
    /\ Ready
    /\ call' = [ op |-> "healthCheck", pc |-> "compute",
                 services |-> [compute |-> FALSE, storage |-> FALSE, ml |-> FALSE] ]
    /\ vendorLog' = << >>
    /\ UNCHANGED <<factoryVars, loaderVars, ret>>

\* the probe at call.pc is issued and settles
HealthProbe(settlement) ==
    /\ call.op = "healthCheck"
    /\ call.pc \in {"compute", "storage", "ml"}
    /\ vendorLog' = Append(vendorLog,
                           Exchange(ProbeRequest(currentProvider.class, call.pc), settlement))
    /\ call' = [ call EXCEPT !.pc = NextProbe(call.pc),
                             !.services[call.pc] = ProbeFlag(@, settlement) ]
    /\ UNCHANGED <<factoryVars, loaderVars, ret>>

HealthCheckReturn ==
    /\ call.op = "healthCheck"
    /\ call.pc = "return"
    /\ ret' = [ op |-> "healthCheck", arg |-> undefined, outcome |-> "return",
                value |-> [status |-> HealthStatus(call.services), services |-> call.services] ]
    /\ call' = [op |-> "idle"]
    /\ UNCHANGED <<factoryVars, loaderVars, vendorLog>>

(***************************************************************************)
(* deployModel: the uploads of all files are started at once and awaited   *)
(* with Promise.all; the model is registered once they are all fulfilled   *)
(***************************************************************************)
MaxFiles == 2

ModelFilePaths == {"model.pth", "config.json"}

\* modelFiles: up to MaxFiles files
ModelFiles == SeqsUpTo([path : ModelFilePaths, content : {"mock model data"}], MaxFiles)

\* { container: 'model-artifacts', path: `${options.modelId}/${file.path}` }
ArtifactOptions(options, file) ==
    [ container |-> "model-artifacts", path |-> options.modelId \o "/" \o file.path,
      contentType |-> NoString ]

\* this.uploadFile(options, data)
uploadFile(provider, options, data, script) ==
    IF provider.class = "AWSProvider"
    THEN AWS_uploadFile(options, data, script)
    ELSE Azure_uploadFile(options, data, script)

\* an upload of deployModel in the log: the vendor call, its settlement, and
\* the completion of the uploadFile call awaiting it
Upload(exchange, result) == [req |-> exchange.req, res |-> exchange.res, result |-> result]

\* AWSProvider.getModelImage
getModelImage(runtime) ==
    LET pytorch == "763104351884.dkr.ecr.us-east-1.amazonaws.com/pytorch-inference:1.8.1-cpu-py36-ubuntu18.04"
    IN  CASE runtime = "pytorch" -> pytorch
          [] runtime = "tensorflow" ->
               "763104351884.dkr.ecr.us-east-1.amazonaws.com/tensorflow-inference:2.5.1-cpu-py37-ubuntu18.04"
          [] runtime = "sklearn" ->
               "683313688378.dkr.ecr.us-east-1.amazonaws.com/sagemaker-scikit-learn:0.23-1-cpu-py3"
          [] OTHER -> pytorch

\* the last artifact taken as the primary model file.
PrimaryArtifact_Last(modelArtifacts) ==
    IF Len(modelArtifacts) = 0 THEN NoString ELSE modelArtifacts[Len(modelArtifacts)]

\* modelArtifacts[0]
PrimaryArtifact(modelArtifacts) ==
    IF Len(modelArtifacts) = 0 THEN NoString ELSE modelArtifacts[1]

\* the model-registration call: CreateModelCommand / models.createOrUpdate
RegisterRequest(provider, options, modelArtifacts) ==
    IF provider.class = "AWSProvider"
    THEN [ api |-> "sagemaker.CreateModel", ModelName |-> options.modelId,
           Image |-> getModelImage(Or(options.runtime, "pytorch")),
           ModelDataUrl |-> PrimaryArtifact(modelArtifacts) ]
    ELSE [ api |-> "models.createOrUpdate", resourceGroup |-> "dsar-resource-group",
           name |-> options.modelId, modelUri |-> PrimaryArtifact(modelArtifacts),
           framework |-> Or(options.runtime, "pytorch"),
           version |-> Or(options.version, "1.0") ]

\* onlineEndpoints.beginCreateOrUpdate(...).pollUntilDone()
EndpointRequest(options, model) ==
    [ api |-> "onlineEndpoints.beginCreateOrUpdate", resourceGroup |-> "dsar-resource-group",
      name |-> options.modelId \o "-endpoint", authMode |-> "key", model |-> model.id ]

\* what the vendor can answer to the registration and to the endpoint creation
CreateModelResponses ==
    [ ModelArn : {NoString, "arn:aws:sagemaker:us-east-1:123456789012:model/test-model"} ]

AzureModels == [ id : {NoString, "/models/test-model/versions/1"} ]

AzureEndpoints == [ id : {NoString, "/onlineEndpoints/test-model-endpoint"} ]

\* deployModel rejects with what the failed uploadFile threw: as it is in
\* AWSProvider, where Promise.all is awaited outside the try; through the
\* catch in AzureProvider
UploadRejected(provider, thrown) ==
    IF provider.class = "AWSProvider"
    THEN Throw(thrown)
    ELSE Rethrow("Failed to deploy model", thrown)

\* deployModel completes
DeployModelCompletes(r) ==
    /\ ret' = [ op |-> "deployModel", arg |-> [options |-> call.options, files |-> call.files],
                outcome |-> r.outcome, value |-> r.value ]
    /\ call' = [op |-> "idle"]

\* a combinator fulfilled by the first upload that is fulfilled.
PromiseAllFulfilled_First(uploads) ==
    \E j \in DOMAIN uploads : uploads[j].result.outcome = "return"

\* Promise.all over the uploads is fulfilled: every upload is
PromiseAllFulfilled(uploads) ==
    \A j \in DOMAIN uploads : uploads[j].result.outcome = "return"

\* deployModel is called: every upload is issued; with no file, Promise.all
\* is fulfilled at once and the registration is issued
DeployModelStart(options, files) ==
    /\ Ready
    /\ vendorLog' =
         IF Len(files) = 0
         THEN << Exchange(RegisterRequest(currentProvider, options, << >>), Pending) >>
         ELSE [ i \in 1..Len(files) |->
                  Upload(uploadFile(currentProvider, ArtifactOptions(options, files[i]),
                                    files[i].content, <<Pending>>).log[1],
                         Pending) ]
    /\ call' = [ op |-> "deployModel", options |-> options, files |-> files,
                 pc |-> IF Len(files) = 0 THEN "register" ELSE "uploads" ]
    /\ UNCHANGED <<factoryVars, loaderVars, ret>>

\* upload i settles, in any order.  The first upload to fail rejects
\* Promise.all and with it deployModel, whatever is still pending; the last
\* upload to succeed fulfils Promise.all and the registration is issued
UploadSettles(i, settlement) ==
    /\ call.op = "deployModel"
    /\ call.pc = "uploads"
    /\ i \in 1..Len(call.files)
    /\ vendorLog[i].res.outcome = "pending"
    /\ LET file == call.files[i]
           done == uploadFile(currentProvider, ArtifactOptions(call.options, file),
                              file.content, <<settlement>>)
           log == [vendorLog EXCEPT ![i] = Upload(done.log[1], done.result)]
       IN  IF done.result.outcome = "throw"
           THEN /\ vendorLog' = log
                /\ DeployModelCompletes(UploadRejected(currentProvider, done.result.value))
           ELSE IF PromiseAllFulfilled(log)
           THEN /\ vendorLog' =
                     Append(log,
                            Exchange(RegisterRequest(currentProvider, call.options,
                                                     [ j \in 1..Len(call.files) |->
                                                         log[j].result.value ]),
                                     Pending))
                /\ call' = [call EXCEPT !.pc = "register"]
                /\ UNCHANGED ret
           ELSE /\ vendorLog' = log
                /\ call' = call
                /\ UNCHANGED ret
    /\ UNCHANGED <<factoryVars, loaderVars>>

\* the registration settles
RegisterSettles(settlement) ==
    /\ call.op = "deployModel"
    /\ call.pc = "register"
    /\ LET log == [vendorLog EXCEPT ![Len(vendorLog)].res = settlement]
       IN  IF settlement.outcome = "reject"
           THEN /\ vendorLog' = log
                /\ DeployModelCompletes(Rethrow("Failed to deploy model", settlement.value))
           ELSE IF IsAWS
           THEN /\ vendorLog' = log
                /\ DeployModelCompletes(Return(Or(settlement.value.ModelArn,
                                                  call.options.modelId)))
           ELSE /\ vendorLog' =
                     Append(log, Exchange(EndpointRequest(call.options, settlement.value),
                                          Pending))
                /\ call' = [call EXCEPT !.pc = "endpoint"]
                /\ UNCHANGED ret
    /\ UNCHANGED <<factoryVars, loaderVars>>

\* AzureProvider: the endpoint creation settles
EndpointSettles(settlement) ==
    /\ call.op = "deployModel"
    /\ call.pc = "endpoint"
    /\ vendorLog' = [vendorLog EXCEPT ![Len(vendorLog)].res = settlement]
    /\ DeployModelCompletes(IF settlement.outcome = "reject"
                            THEN Rethrow("Failed to deploy model", settlement.value)
                            ELSE Return(Or(settlement.value.id, call.options.modelId)))
    /\ UNCHANGED <<factoryVars, loaderVars>>

\* the steps of deployModel
DeployModelStep ==
    \/ \E options \in MLModelOptionsSet : \E files \in ModelFiles :
         DeployModelStart(options, files)
    \/ \E i \in 1..MaxFiles : \E settlement \in {Resolve(undefined), Reject(VendorError)} :
         UploadSettles(i, settlement)
    \/ \E settlement \in {Reject(VendorError)} \cup
                         { Resolve(v) : v \in IF IsAWS THEN CreateModelResponses
                                              ELSE AzureModels } :
         RegisterSettles(settlement)
    \/ \E settlement \in {Reject(VendorError)} \cup { Resolve(v) : v \in AzureEndpoints } :
         EndpointSettles(settlement)

(***************************************************************************)
(* Specification of the provider operations: a provider has been obtained  *)
(* through loadConfig and getProvider, and the caller invokes operations   *)
(***************************************************************************)
LoadedConfigs == { loadConfig(undefined, JestEnv, p).result.value : p \in CloudProvider }

InitProvider ==
    \E config \in LoadedConfigs :
        LET got == getProvider(undefined, 1, config)
        IN  /\ env = JestEnv
            /\ envWrites = 0
            /\ loaderConfig = config
            /\ call = [op |-> "idle"]
            /\ vendorLog = << >>
            /\ currentProvider = got.currentProvider
            /\ nextId = 2
            /\ evicted = undefined
            /\ firstServed = got.currentProvider
            /\ firstConfig = config
            /\ ret = [op |-> "getProvider", arg |-> config,
                      outcome |-> got.result.outcome, value |-> got.result.value]

NextProvider ==
    \/ \E options \in ComputeOptions : CreateComputeInstance(options)
    \/ \E instanceId \in InstanceIds : GetComputeInstance(instanceId)
    \/ \E instanceId \in InstanceIds : TerminateInstance(instanceId)
    \/ \E options \in StorageOptionsSet : \E data \in FileContents : UploadFile(options, data)
    \/ \E options \in StorageOptionsSet : DownloadFile(options)
    \/ \E options \in StorageOptionsSet : DeleteFile(options)
    \/ \E options \in MLModelOptionsSet : \E input \in InferenceInputs :
         RunInference(options, input)
    \/ HealthCheckStart
    \/ \E settlement \in {Resolve(undefined), Reject(VendorError)} : HealthProbe(settlement)
    \/ HealthCheckReturn
    \/ DeployModelStep

SpecProvider == InitProvider /\ [][NextProvider]_vars

\* the compute operations alone
NextCompute ==
    \/ \E options \in ComputeOptions : CreateComputeInstance(options)
    \/ \E instanceId \in InstanceIds : GetComputeInstance(instanceId)
    \/ \E instanceId \in InstanceIds : TerminateInstance(instanceId)

SpecCompute == InitProvider /\ [][NextCompute]_vars

\* healthCheck, between storage operations
NextHealth ==
    \/ \E options \in StorageOptionsSet : \E data \in FileContents : UploadFile(options, data)
    \/ \E options \in StorageOptionsSet : DownloadFile(options)
    \/ \E options \in StorageOptionsSet : DeleteFile(options)
    \/ HealthCheckStart
    \/ \E settlement \in {Resolve(undefined), Reject(VendorError)} : HealthProbe(settlement)
    \/ HealthCheckReturn

SpecHealth == InitProvider /\ [][NextHealth]_vars

\* deployModel alone
NextDeploy == DeployModelStep

SpecDeploy == InitProvider /\ [][NextDeploy]_vars

(***************************************************************************)
(* errors.ts: CloudProviderError and wrapProviderOperation.  Error objects *)
(* carry a reference, so that the same object and an equal copy differ;    *)
(* an object is allocated after the objects it refers to, under the next   *)
(* reference                                                               *)
(***************************************************************************)
CloudService == {"compute", "storage", "ml"}

UpperChar(c) ==
    IF \E i \in 1..Len(LowerLetters) : SubSeq(LowerLetters, i, i) = c
    THEN LET i == CHOOSE i \in 1..Len(LowerLetters) : SubSeq(LowerLetters, i, i) = c
         IN  SubSeq(UpperLetters, i, i)
    ELSE c

\* String.prototype.toUpperCase
RECURSIVE toUpperCase(_)
toUpperCase(s) ==
    IF Len(s) = 0 THEN ""
    ELSE UpperChar(SubSeq(s, 1, 1)) \o toUpperCase(SubSeq(s, 2, Len(s)))

\* `${value}` for an optional string
TemplateString(value) == IF value = NoString THEN "undefined" ELSE value

\* an error object that is not a CloudProviderError, at a reference
ErrorObject(name, message, ref) == [name |-> name, message |-> message, ref |-> ref]

\* new CloudProviderError(message, provider, service, originalError)
CloudProviderError(message, provider, service, originalError, ref) ==
    [ name |-> "CloudProviderError", message |-> message, provider |-> provider,
      service |-> service, originalError |-> originalError, ref |-> ref ]

\* error instanceof CloudProviderError
InstanceOfCloudProviderError(error) == error.name = "CloudProviderError"

\* fromError that leaves the provider name as it is in the message.
fromError_AsGiven(error, provider, service) ==
    CloudProviderError(provider \o " " \o service \o " error: "
                         \o TemplateString(error.message),
                       provider, service, error, error.ref + 1)

\* CloudProviderError.fromError
fromError(error, provider, service) ==
    CloudProviderError(toUpperCase(provider) \o " " \o service \o " error: "
                         \o TemplateString(error.message),
                       provider, service, error, error.ref + 1)

\* a wrapper that tags whatever the operation throws.
wrapProviderOperation_AlwaysWraps(operation, provider, service) ==
    IF operation.outcome = "return"
    THEN operation
    ELSE Throw(fromError(operation.value, provider, service))

\* wrapProviderOperation, given the completion of `await operation()`
wrapProviderOperation(operation, provider, service) ==
    IF operation.outcome = "return"
    THEN operation
    ELSE IF InstanceOfCloudProviderError(operation.value)
    THEN Throw(operation.value)
    ELSE Throw(fromError(operation.value, provider, service))

\* what operations throw: the Error of a provider's catch block, a vendor
\* error, a thrown value that is no Error, and CloudProviderErrors built
\* with or without an original error
ThrownErrors ==
    { ErrorObject("Error", "Failed to upload file: ServiceException: request failed", 1),
      ErrorObject(VendorError.name, VendorError.message, 1),
      ErrorObject(NoString, NoString, 1) } \cup
    { CloudProviderError(message, provider, service, originalError, 2) :
        message \in {"AWS storage error: request failed", "quota exceeded"},
        provider \in CloudProvider, service \in CloudService,
        originalError \in {undefined, ErrorObject(VendorError.name, VendorError.message, 1)} }

\* the completions of `await operation()`
OperationOutcomes == { Return([data |-> "ok"]) } \cup { Throw(e) : e \in ThrownErrors }

\* wrapProviderOperation(operation, provider, service) is called and settles
WrapProviderOperation(operation, provider, service) ==
    /\ call.op = "idle"
    /\ LET r == wrapProviderOperation(operation, provider, service)
       IN  ret' = [ op |-> "wrapProviderOperation",
                    arg |-> [operation |-> operation, provider |-> provider,
                             service |-> service],
                    outcome |-> r.outcome, value |-> r.value ]
    /\ UNCHANGED <<factoryVars, loaderVars, providerVars>>

\* the operation passed to the wrapper is itself the wrapper call that has
\* just settled: wrapProviderOperation(() => wrapProviderOperation(...), ...)
WrapNested(provider, service) ==
    /\ ret.op = "wrapProviderOperation"
    /\ WrapProviderOperation([outcome |-> ret.outcome, value |-> ret.value], provider, service)

NextWrap ==
    \/ \E operation \in OperationOutcomes : \E provider \in CloudProvider :
         \E service \in CloudService : WrapProviderOperation(operation, provider, service)
    \/ \E provider \in CloudProvider : \E service \in CloudService :
         WrapNested(provider, service)

SpecWrap == Init /\ [][NextWrap]_vars

(***************************************************************************)
(* Claims about the factory (checked under SpecFactory)                    *)
(***************************************************************************)
\* A step of the factory is a getProvider call exactly when it leaves
\* ret.op = "getProvider"; ret'.arg is then the configuration passed.
SupportedProviders == {"aws", "azure"}

\* C1 as stated: every getProvider call with a supported provider and its
\* matching credentials returns an instance whose getConfig().provider is the
\* requested provider, whatever earlier calls did.
C1_AnyCallReturnsRequested ==
    (ret.op = "getProvider" /\ HasMatchingCredentials(ret.arg))
        => /\ ret.outcome = "return"
           /\ ret.value # undefined
           /\ getConfig(ret.value).provider = ret.arg.provider

\* C1 amended: a getProvider call made while no provider is cached, with a
\* supported provider and its matching credentials, returns a non-null
\* instance whose getConfig().provider is the requested provider.
C1_EmptyCacheReturnsRequested ==
    [][ (currentProvider = undefined /\ ret'.op = "getProvider"
            /\ HasMatchingCredentials(ret'.arg))
        => /\ ret'.outcome = "return"
           /\ ret'.value # undefined
           /\ getConfig(ret'.value).provider = ret'.arg.provider ]_vars

C1_Witness ==
    /\ ret.op = "getProvider" /\ ret.outcome = "return"
    /\ ret.arg.provider = "azure"
    /\ firstServed = ret.value /\ firstConfig = ret.arg
    /\ ret.value.id = nextId - 1
    /\ getConfig(ret.value).provider = "azure"
    /\ evicted # undefined /\ getConfig(evicted).provider = "aws"

\* C2 as stated: getProvider with a provider value outside {aws, azure} fails
\* with the unsupported-provider error in every factory state.
C2_UnsupportedAlwaysFails ==
    (ret.op = "getProvider" /\ ret.arg.provider \notin SupportedProviders)
        => /\ ret.outcome = "throw"
           /\ ret.value = Error("Unsupported cloud provider: " \o ret.arg.provider)

\* C2 amended: getProvider with a provider value outside {aws, azure} never
\* constructs or caches an instance; with no provider cached it fails with
\* the unsupported-provider error, and with a provider cached it returns the
\* cached instance.
C2_UnsupportedNeverConstructs ==
    [][ (ret'.op = "getProvider" /\ ret'.arg.provider \notin SupportedProviders)
        => /\ currentProvider' = currentProvider
           /\ nextId' = nextId
           /\ IF currentProvider = undefined
              THEN /\ ret'.outcome = "throw"
                   /\ ret'.value = Error("Unsupported cloud provider: " \o ret'.arg.provider)
              ELSE /\ ret'.outcome = "return"
                   /\ ret'.value = currentProvider ]_vars

C2_Witness ==
    /\ ret.op = "getProvider" /\ ret.arg.provider = "invalid"
    /\ ret.outcome = "throw"
    /\ ret.value.message = "Unsupported cloud provider: invalid"
    /\ currentProvider = undefined
    /\ evicted # undefined

\* C3: directly after clearProvider(), getProvider(config2) with a valid
\* config2 that differs from the configuration of the evicted instance returns
\* a newly built instance whose getConfig() is config2, not the evicted one.
C3_ClearThenGetRebuilds ==
    [][ (ret.op = "clearProvider" /\ ret'.op = "getProvider"
            /\ HasMatchingCredentials(ret'.arg)
            /\ evicted # undefined /\ ret'.arg # getConfig(evicted))
        => /\ ret'.outcome = "return"
           /\ getConfig(ret'.value) = ret'.arg
           /\ ret'.value # evicted
           /\ ret'.value.id = nextId
           /\ currentProvider' = ret'.value ]_vars

C3_Witness ==
    /\ ret.op = "getProvider" /\ ret.outcome = "return"
    /\ evicted # undefined /\ ret.arg # getConfig(evicted)
    /\ getConfig(ret.value) = ret.arg
    /\ ret.value.id = evicted.id + 1
    /\ firstServed = ret.value
    /\ currentProvider = ret.value

\* C4: between two consecutive clearProvider calls every successful
\* getProvider call returns the one cached instance, which was built from the
\* configuration of the first successful call; later arguments are ignored.
C4_OneInstancePerEpoch ==
    (ret.op = "getProvider" /\ ret.outcome = "return")
        => /\ ret.value = firstServed
           /\ currentProvider = firstServed
           /\ getConfig(ret.value) = firstConfig

C4_Witness ==
    /\ ret.op = "getProvider" /\ ret.outcome = "return"
    /\ ret.arg.provider = "invalid"
    /\ ret.value = firstServed
    /\ getConfig(ret.value) # ret.arg
    /\ getConfig(ret.value).provider = "aws"

(***************************************************************************)
(* Claims about configuration loading (checked under SpecLoader)           *)
(***************************************************************************)
\* the variables the external-interface section requires for a provider
RequiredEnv(provider) ==
    CASE provider = "aws" -> {"AWS_ACCESS_KEY_ID", "AWS_SECRET_ACCESS_KEY"}
      [] provider = "azure" ->
           {"AZURE_TENANT_ID", "AZURE_CLIENT_ID", "AZURE_CLIENT_SECRET",
            "AZURE_SUBSCRIPTION_ID", "AZURE_STORAGE_CONNECTION_STRING"}
      [] OTHER -> {}

MissingRequired(e, provider) == \E n \in RequiredEnv(provider) : ~Truthy(e[n])

\* C10 as stated: whenever a variable required for the selected provider is
\* missing or empty, loadConfig fails.  (While ret.op = "loadConfig" the
\* environment is the one the call ran under: SetEnv overwrites ret.)
C10_MissingEnvAlwaysFails ==
    (ret.op = "loadConfig" /\ MissingRequired(env, EnvProvider(env, ret.arg)))
        => ret.outcome = "throw"

\* C10 amended: a loadConfig call that reads the environment (a provider
\* argument is given, or no configuration is cached) while a variable required
\* for the selected provider is missing or empty fails, returns and caches no
\* configuration and leaves the factory untouched; and in the flow loadConfig
\* then getProvider, no getProvider call follows a failed loadConfig.
C10_ReadingMissingEnvFails ==
    /\ [][ (ret'.op = "loadConfig"
              /\ (Truthy(ret'.arg) \/ loaderConfig = undefined)
              /\ MissingRequired(env, EnvProvider(env, ret'.arg)))
           => /\ ret'.outcome = "throw"
              /\ ret'.value.name = "Error"
              /\ loaderConfig' = loaderConfig
              /\ currentProvider' = currentProvider
              /\ nextId' = nextId ]_vars
    /\ [][ (ret.op = "loadConfig" /\ ret.outcome = "throw")
           => ret'.op # "getProvider" ]_vars

C10_Witness ==
    /\ ret.op = "loadConfig" /\ ret.arg = "azure"
    /\ env["AZURE_CLIENT_SECRET"] = ""
    /\ ret.outcome = "throw"
    /\ ret.value.message = "Required environment variable AZURE_CLIENT_SECRET is not set"
    /\ loaderConfig = undefined
    /\ currentProvider = undefined

(***************************************************************************)
(* Claims about status mapping (checked under SpecCompute)                 *)
(***************************************************************************)
\* a compute operation returned a ComputeInstance
ReturnedInstance ==
    /\ ret.op \in {"createComputeInstance", "getComputeInstance"}
    /\ ret.outcome = "return"

\* the vendor's status of an Azure instance view: the code of its first
\* PowerState entry, NoString when the view has none
RECURSIVE FirstPowerStateCode(_)
FirstPowerStateCode(statuses) ==
    IF statuses = << >> THEN NoString
    ELSE IF Head(statuses).code # NoString
            /\ Len(Head(statuses).code) >= 11
            /\ SubSeq(Head(statuses).code, 1, 11) = "PowerState/"
         THEN Head(statuses).code
         ELSE FirstPowerStateCode(Tail(statuses))

\* the instance status the vendor reported in the last compute operation
VendorStatus ==
    LET answer == vendorLog[Len(vendorLog)].res.value
    IN  IF currentProvider.class = "AWSProvider"
        THEN LET instance == IF ret.op = "createComputeInstance"
                             THEN answer.Instances.array[1]
                             ELSE answer.instance
             IN  IF instance.State = undefined THEN NoString ELSE instance.State.Name
        ELSE IF answer = undefined THEN NoString
             ELSE IF answer.statuses = undefined THEN NoString
             ELSE FirstPowerStateCode(answer.statuses.array)

RecognisedStatus ==
    [ running |-> {"running", "PowerState/running"},
      stopped |-> {"stopped", "PowerState/stopped"} ]

\* C9: a vendor status that is not one of the recognised running / stopped
\* values, an absent one included, is mapped to 'terminated', and the mapped
\* status is always one of running, stopped, terminated.
C9_UnknownStatusTerminated ==
    ReturnedInstance
        => /\ ret.value.status \in {"running", "stopped", "terminated"}
           /\ VendorStatus \notin (RecognisedStatus.running \cup RecognisedStatus.stopped)
                => ret.value.status = "terminated"

C9_Witness ==
    /\ ReturnedInstance
    /\ currentProvider.class = "AWSProvider"
    /\ VendorStatus = "pending"
    /\ ret.value.status = "terminated"

(***************************************************************************)
(* Claims about healthCheck (checked under SpecHealth)                     *)
(***************************************************************************)
HealthCheckStep ==
    \/ \E settlement \in {Resolve(undefined), Reject(VendorError)} : HealthProbe(settlement)
    \/ HealthCheckReturn

\* C5: whatever the three probes do, healthCheck runs on to a result and
\* never throws, and the status is 'healthy' exactly when services.compute,
\* services.storage and services.ml are all true, 'unhealthy' otherwise.
C5_HealthyIffAllServices ==
    /\ call.op = "healthCheck" => ENABLED HealthCheckStep
    /\ ret.op = "healthCheck"
         => /\ ret.outcome = "return"
            /\ ret.value.status \in {"healthy", "unhealthy"}
            /\ ret.value.status = "healthy"
                 <=> (ret.value.services.compute /\ ret.value.services.storage
                        /\ ret.value.services.ml)

C5_Witness ==
    /\ ret.op = "healthCheck"
    /\ currentProvider.class = "AzureProvider"
    /\ Len(vendorLog) = 3
    /\ vendorLog[3].res.outcome = "reject"
    /\ ret.value.services = [compute |-> TRUE, storage |-> TRUE, ml |-> FALSE]
    /\ ret.value.status = "unhealthy"

(***************************************************************************)
(* Claims about deployModel (checked under SpecDeploy)                     *)
(***************************************************************************)
UploadApis == {"s3.PutObject", "blockBlob.upload"}

RegisterApis == {"sagemaker.CreateModel", "models.createOrUpdate"}

\* the positions of the upload calls and of the registration calls in the log
UploadCalls == { i \in DOMAIN vendorLog : vendorLog[i].req.api \in UploadApis }

RegisterCalls == { i \in DOMAIN vendorLog : vendorLog[i].req.api \in RegisterApis }

\* the locator a registration call references
RegisteredLocator(request) ==
    IF request.api = "sagemaker.CreateModel" THEN request.ModelDataUrl ELSE request.modelUri

\* a deployModel call has completed and the log is that of this call
DeployModelDone == call.op = "idle" /\ ret.op = "deployModel"

\* every upload of the call returned a locator
AllUploadsReturned == \A i \in UploadCalls : vendorLog[i].result.outcome = "return"

\* C6, as stated: every deployModel call with N files has issued exactly N
\* uploads and exactly one registration, and with N >= 1 the registration
\* references the locator the upload of modelFiles[0] returned.
C6_AlwaysOneRegistration ==
    DeployModelDone
      => /\ Cardinality(UploadCalls) = Len(ret.arg.files)
         /\ Cardinality(RegisterCalls) = 1
         /\ \A r \in RegisterCalls :
              Len(ret.arg.files) >= 1
                => /\ vendorLog[1].result.outcome = "return"
                   /\ RegisteredLocator(vendorLog[r].req) = vendorLog[1].result.value

\* C6, amended: a deployModel call with N files issues exactly N uploads, one
\* per file in the order of modelFiles, and never more than one registration.
\* When the call has completed: if every upload returned a locator there is
\* exactly one registration, issued after the N uploads, and it references
\* the locator returned by the upload of modelFiles[0] (no locator when
\* N = 0); if an upload failed there is no registration.
C6_OneRegistrationIfUploadsSucceed ==
    /\ call.op = "deployModel"
         => /\ UploadCalls = 1..Len(call.files)
            /\ Cardinality(RegisterCalls) <= 1
    /\ DeployModelDone
         => /\ UploadCalls = 1..Len(ret.arg.files)
            /\ \A i \in UploadCalls :
                 vendorLog[i].req =
                   uploadFile(currentProvider,
                              ArtifactOptions(ret.arg.options, ret.arg.files[i]),
                              ret.arg.files[i].content, <<Pending>>).log[1].req
            /\ IF AllUploadsReturned
               THEN /\ RegisterCalls = {Len(ret.arg.files) + 1}
                    /\ \A r \in RegisterCalls :
                         RegisteredLocator(vendorLog[r].req) =
                           IF Len(ret.arg.files) = 0 THEN NoString
                           ELSE vendorLog[1].result.value
               ELSE /\ RegisterCalls = {}
                    /\ ret.outcome = "throw"

\* a call with two different files has completed, with a registration that
\* references the first locator and not the second
C6_Witness ==
    /\ DeployModelDone
    /\ Len(ret.arg.files) = 2
    /\ ret.outcome = "return"
    /\ RegisterCalls = {3}
    /\ RegisteredLocator(vendorLog[3].req) = vendorLog[1].result.value
    /\ RegisteredLocator(vendorLog[3].req) # vendorLog[2].result.value

(***************************************************************************)
(* Claims about the failures of the operations (checked under SpecProvider)*)
(***************************************************************************)
\* the service each operation of the capability interface belongs to
ServiceOf(op) ==
    CASE op \in {"createComputeInstance", "getComputeInstance", "terminateInstance"} -> "compute"
      [] op \in {"uploadFile", "downloadFile", "deleteFile"} -> "storage"
      [] op \in {"deployModel", "runInference"} -> "ml"

TaggedOperations ==
    { "createComputeInstance", "getComputeInstance", "terminateInstance", "uploadFile",
      "downloadFile", "deleteFile", "deployModel", "runInference" }

\* an operation other than healthCheck has failed
OperationFailed ==
    call.op = "idle" /\ ret.op \in TaggedOperations /\ ret.outcome = "throw"

\* C7: every failure of an operation other than healthCheck reaches the caller
\* as a CloudProviderError tagged with the service of the operation and with
\* the active provider.
C7_FailuresAreTagged ==
    OperationFailed
      => /\ ret.value.name = "CloudProviderError"
         /\ ret.value.service = ServiceOf(ret.op)
         /\ ret.value.provider = getConfig(currentProvider).provider

(***************************************************************************)
(* Claims about wrapProviderOperation (checked under SpecWrap)             *)
(***************************************************************************)
\* the operation passed to the wrapper failed with a CloudProviderError
WrappedTaggedFailure ==
    /\ ret.op = "wrapProviderOperation"
    /\ ret.arg.operation.outcome = "throw"
    /\ InstanceOfCloudProviderError(ret.arg.operation.value)

\* C8: when the operation fails with a CloudProviderError, the wrapper fails
\* with the same error object: same reference, and provider, service, message
\* and originalError unchanged, whatever provider and service it was given.
C8_TaggedErrorPassesThrough ==
    WrappedTaggedFailure
      => /\ ret.outcome = "throw"
         /\ ret.value.ref = ret.arg.operation.value.ref
         /\ ret.value.provider = ret.arg.operation.value.provider
         /\ ret.value.service = ret.arg.operation.value.service
         /\ ret.value.message = ret.arg.operation.value.message
         /\ ret.value.originalError = ret.arg.operation.value.originalError
         /\ ret.value = ret.arg.operation.value

\* a CloudProviderError has passed through a wrapper given another provider
\* and another service than the error's
C8_Witness ==
    /\ WrappedTaggedFailure
    /\ ret.outcome = "throw"
    /\ ret.value = ret.arg.operation.value
    /\ ret.arg.provider # ret.value.provider
    /\ ret.arg.service # ret.value.service

(***************************************************************************)
(* Claims about the CloudConfig invariant (checked under SpecConfig)       *)
(***************************************************************************)
\* exactly one credential block is populated, the one named by provider
ExactlyOneMatchingBlock(config) ==
    \/ /\ config.provider = "aws"
       /\ config.credentials.aws # undefined
       /\ config.credentials.azure = undefined
    \/ /\ config.provider = "azure"
       /\ config.credentials.azure # undefined
       /\ config.credentials.aws = undefined

\* C11, as stated: the configuration held by every provider instance that
\* getProvider returns, and every configuration loadConfig returns, has exactly
\* one credential block populated, the one named by its provider.
C11_ExactlyOneBlockEverywhere ==
    /\ currentProvider # undefined => ExactlyOneMatchingBlock(getConfig(currentProvider))
    /\ (ret.op = "getProvider" /\ ret.outcome = "return")
         => ExactlyOneMatchingBlock(getConfig(ret.value))
    /\ (ret.op = "loadConfig" /\ ret.outcome = "return") => ExactlyOneMatchingBlock(ret.value)
    /\ loaderConfig # undefined => ExactlyOneMatchingBlock(loaderConfig)

\* C11, amended: every configuration loadConfig returns or caches has exactly
\* one credential block populated, the one named by its provider; the
\* configuration held by a provider instance that getProvider returns has the
\* block named by its provider populated, whatever the other block is.
C11_MatchingBlockPopulated ==
    /\ currentProvider # undefined => HasMatchingCredentials(getConfig(currentProvider))
    /\ (ret.op = "getProvider" /\ ret.outcome = "return")
         => HasMatchingCredentials(getConfig(ret.value))
    /\ (ret.op = "loadConfig" /\ ret.outcome = "return") => ExactlyOneMatchingBlock(ret.value)
    /\ loaderConfig # undefined => ExactlyOneMatchingBlock(loaderConfig)

\* a provider holding both credential blocks is cached while loadConfig
\* returns a configuration with one block, and it has returned both kinds
C11_Witness ==
    /\ currentProvider # undefined
    /\ getConfig(currentProvider).credentials.aws # undefined
    /\ getConfig(currentProvider).credentials.azure # undefined
    /\ ret.op = "loadConfig"
    /\ ret.outcome = "return"
    /\ ret.value.provider = "azure"
    /\ ret.arg = NoString

(***************************************************************************)
(* Claims about the probes of healthCheck (checked under SpecHealth)       *)
(***************************************************************************)
\* a healthCheck run has returned and the log is that of this run
HealthCheckDone == call.op = "idle" /\ ret.op = "healthCheck"

\* the position of each probe in program order
ProbeOrder == <<"compute", "storage", "ml">>

\* C12: in every run of healthCheck each of the three probes is issued exactly
\* once, whatever the outcome of the others, and each returned flag is true
\* exactly when its own probe succeeded.
C12_ProbesIndependent ==
    HealthCheckDone
      => /\ Len(vendorLog) = Len(ProbeOrder)
         /\ \A k \in DOMAIN ProbeOrder :
              /\ vendorLog[k].req = ProbeRequest(currentProvider.class, ProbeOrder[k])
              /\ ret.value.services[ProbeOrder[k]] <=> vendorLog[k].res.outcome = "resolve"

\* a run in which the first and the last probe failed and the second succeeded
C12_Witness ==
    /\ HealthCheckDone
    /\ vendorLog[1].res.outcome = "reject"
    /\ vendorLog[2].res.outcome = "resolve"
    /\ vendorLog[3].res.outcome = "reject"
    /\ ret.value.services = [compute |-> FALSE, storage |-> TRUE, ml |-> FALSE]

(***************************************************************************)
(* Claims about the concurrency of deployModel (checked under SpecDeploy)  *)
(***************************************************************************)
\* the uploads of the call that have not settled yet
PendingUploads == { i \in UploadCalls : vendorLog[i].res.outcome = "pending" }

\* C13: the uploads of deployModel are all in flight together and settle in
\* any order, each either way; a registration is in the log only when every
\* upload has been issued before it and has succeeded, so it is never issued
\* while an upload is pending, and never at all if an upload failed.
C13_RegistrationAfterUploads ==
    /\ \A r \in RegisterCalls :
         \A i \in UploadCalls : i < r /\ vendorLog[i].res.outcome = "resolve"
    /\ (call.op = "deployModel" /\ call.pc = "uploads")
         => \A i \in PendingUploads :
              /\ ENABLED UploadSettles(i, Resolve(undefined))
              /\ ENABLED UploadSettles(i, Reject(VendorError))
    /\ (DeployModelDone /\ \E i \in UploadCalls : vendorLog[i].res.outcome = "reject")
         => RegisterCalls = {}

\* the second upload failed while the first was still pending, and the call
\* has failed without a registration
C13_Witness ==
    /\ DeployModelDone
    /\ Len(ret.arg.files) = 2
    /\ vendorLog[1].res.outcome = "pending"
    /\ vendorLog[2].res.outcome = "reject"
    /\ ret.outcome = "throw"
    /\ RegisterCalls = {}

(***************************************************************************)
(* Claims about the normalization of errors (checked under SpecWrap)       *)
(***************************************************************************)
\* the provider names in capitals
InCapitals(provider) ==
    CASE provider = "aws" -> "AWS"
      [] provider = "azure" -> "AZURE"

\* the operation passed to the wrapper failed with an Error that is not a
\* CloudProviderError
WrappedUntaggedFailure ==
    /\ ret.op = "wrapProviderOperation"
    /\ ret.arg.operation.outcome = "throw"
    /\ ~InstanceOfCloudProviderError(ret.arg.operation.value)
    /\ ret.arg.operation.value.message # NoString

\* C14: when the operation fails with an error that is not a
\* CloudProviderError, the wrapper fails with a new CloudProviderError tagged
\* with the wrapper's provider and service, holding the thrown error as
\* originalError, with message "<PROVIDER> <service> error: <original message>";
\* when the operation succeeds, its result is returned unchanged.
C14_UntaggedErrorIsNormalized ==
    /\ WrappedUntaggedFailure
         => /\ ret.outcome = "throw"
            /\ ret.value.name = "CloudProviderError"
            /\ ret.value.provider = ret.arg.provider
            /\ ret.value.service = ret.arg.service
            /\ ret.value.originalError = ret.arg.operation.value
            /\ ret.value.ref # ret.arg.operation.value.ref
            /\ ret.value.message =
                 InCapitals(ret.arg.provider) \o " " \o ret.arg.service \o " error: "
                   \o ret.arg.operation.value.message
    /\ (ret.op = "wrapProviderOperation" /\ ret.arg.operation.outcome = "return")
         => /\ ret.outcome = "return"
            /\ ret.value = ret.arg.operation.value

\* a vendor error has been normalized by a wrapper for (azure, ml)
C14_Witness ==
    /\ WrappedUntaggedFailure
    /\ ret.arg.operation.value.name = "ServiceException"
    /\ ret.arg.provider = "azure"
    /\ ret.arg.service = "ml"
    /\ ret.outcome = "throw"
    /\ ret.value.message = "AZURE ml error: request failed"

(***************************************************************************)
(* Claims about missing credentials (checked under SpecFactory)            *)
(***************************************************************************)
\* getProvider has failed for a supported provider whose credential block is
\* absent; a getProvider call fails only when the cache is empty
MissingCredentialsFailure ==
    /\ ret.op = "getProvider"
    /\ ret.outcome = "throw"
    /\ ret.arg.provider \in CloudProvider
    /\ ~HasMatchingCredentials(ret.arg)

\* C15: with an empty cache, getProvider for aws (resp. azure) without
\* credentials.aws (resp. credentials.azure) fails at once with an error of the
\* ConfigurationError kind, and no provider instance exists afterwards.
C15_MissingCredentialsConfigurationError ==
    MissingCredentialsFailure
      => /\ ret.value.name = "ConfigurationError"
         /\ currentProvider = undefined

(***************************************************************************)
(* Claims about createComputeInstance (checked under SpecCompute)          *)
(***************************************************************************)
ProvisioningApis == {"ec2.RunInstances", "virtualMachines.beginCreateOrUpdate"}

ProvisioningCalls == { i \in DOMAIN vendorLog : vendorLog[i].req.api \in ProvisioningApis }

\* a createComputeInstance call has completed
CreateDone == call.op = "idle" /\ ret.op = "createComputeInstance"

\* every vendor call of the operation succeeded
AllCallsResolved == \A i \in DOMAIN vendorLog : vendorLog[i].res.outcome = "resolve"

\* the vendor answered the provisioning request without any instance
NoInstanceCreated ==
    /\ IsAWS
    /\ vendorLog[1].res.outcome = "resolve"
    /\ \/ vendorLog[1].res.value.Instances = undefined
       \/ Len(vendorLog[1].res.value.Instances.array) = 0

\* the mapping of the first instance of the vendor's answer
FirstInstanceMapped ==
    IF IsAWS
    THEN mapEC2InstanceToComputeInstance(vendorLog[1].res.value.Instances.array[1])
    ELSE mapAzureVMToComputeInstance(vendorLog[2].res.value, vendorLog[3].res.value)

\* C16: createComputeInstance issues exactly one provisioning request, for
\* exactly one instance; when the vendor's answer holds no instance the call
\* fails with an error of the compute service and returns no ComputeInstance;
\* when the vendor calls succeed with an instance it returns the mapping of the
\* first instance of the answer.
C16_OneInstanceOrComputeError ==
    CreateDone
      => /\ Cardinality(ProvisioningCalls) = 1
         /\ IsAWS => vendorLog[1].req.MinCount = 1 /\ vendorLog[1].req.MaxCount = 1
         /\ IF NoInstanceCreated
            THEN /\ ret.outcome = "throw"
                 /\ ret.value.name = "CloudProviderError"
                 /\ ret.value.service = "compute"
            ELSE AllCallsResolved
                   => /\ ret.outcome = "return"
                      /\ ret.value = FirstInstanceMapped

(***************************************************************************)
(* Claims about terminateInstance (checked under SpecCompute)              *)
(***************************************************************************)
\* a terminateInstance call has returned to the caller without an error
TerminateReturned ==
    call.op = "idle" /\ ret.op = "terminateInstance" /\ ret.outcome = "return"

\* C17: on the AWS provider terminateInstance returns as soon as the vendor
\* has answered the terminate request, the only vendor call it makes, so
\* nothing waits for the teardown; on the Azure provider it returns only after
\* the delete operation it began has been polled to completion.
C17_TerminateCompletion ==
    TerminateReturned
      => IF IsAWS
         THEN /\ Len(vendorLog) = 1
              /\ vendorLog[1].req.api = "ec2.TerminateInstances"
              /\ vendorLog[1].res.outcome = "resolve"
         ELSE /\ Len(vendorLog) = 2
              /\ vendorLog[1].req.api = "virtualMachines.beginDelete"
              /\ vendorLog[1].res = Resolve(Poller)
              /\ vendorLog[2].req.api = "poller.pollUntilDone"
              /\ vendorLog[2].res.outcome = "resolve"

\* terminateInstance has returned on the Azure provider, the delete polled
C17_Witness ==
    /\ TerminateReturned
    /\ ~IsAWS
    /\ Len(vendorLog) = 2
    /\ vendorLog[2].req.api = "poller.pollUntilDone"
    /\ vendorLog[2].res.outcome = "resolve"

(***************************************************************************)
(* Claims about the ConfigLoader cache (checked under SpecLoader)          *)
(***************************************************************************)
\* the credentials the environment holds for a provider
CredentialsInEnv(provider) ==
    IF provider = "aws"
    THEN [ region |-> IF Truthy(env["CLOUD_REGION"]) THEN env["CLOUD_REGION"] ELSE "us-east-1",
           aws |-> [ accessKeyId |-> env["AWS_ACCESS_KEY_ID"],
                     secretAccessKey |-> env["AWS_SECRET_ACCESS_KEY"] ],
           azure |-> undefined ]
    ELSE [ region |-> IF Truthy(env["CLOUD_REGION"]) THEN env["CLOUD_REGION"] ELSE "us-east-1",
           aws |-> undefined,
           azure |-> [ tenantId |-> env["AZURE_TENANT_ID"],
                       clientId |-> env["AZURE_CLIENT_ID"],
                       clientSecret |-> env["AZURE_CLIENT_SECRET"],
                       subscriptionId |-> env["AZURE_SUBSCRIPTION_ID"],
                       storageConnectionString |-> env["AZURE_STORAGE_CONNECTION_STRING"] ] ]

\* C18: the cached configuration is that of the most recent successful
\* loadConfig: a successful call caches what it returns and any other step
\* leaves the cache as it is, a failed call included.  With a configuration
\* cached, loadConfig() without argument returns it whatever the environment
\* says; loadConfig(p) with an argument reads the environment of the moment,
\* and when it succeeds returns the configuration for p found there.
C18_LoaderCache ==
    /\ [][ IF ret'.op = "loadConfig" /\ ret'.outcome = "return"
           THEN loaderConfig' = ret'.value
           ELSE loaderConfig' = loaderConfig ]_vars
    /\ [][ (ret'.op = "loadConfig" /\ ret'.arg = NoString /\ loaderConfig # undefined)
             => /\ ret'.outcome = "return"
                /\ ret'.value = loaderConfig ]_vars
    /\ [][ (ret'.op = "loadConfig" /\ ret'.arg # NoString /\ ret'.outcome = "return")
             => /\ ret'.value.provider = ret'.arg
                /\ ret'.value.credentials = CredentialsInEnv(ret'.arg) ]_vars
    /\ [][ (ret'.op = "loadConfig" /\ ret'.arg # NoString)
             => (ret'.outcome = "throw" <=> MissingRequired(env, ret'.arg)) ]_vars

\* loadConfig() has returned the cached Azure configuration although the
\* environment names aws
C18_Witness ==
    /\ ret.op = "loadConfig"
    /\ ret.arg = NoString
    /\ ret.outcome = "return"
    /\ ret.value.provider = "azure"
    /\ loaderConfig = ret.value
    /\ env["CLOUD_PROVIDER"] = "aws"

(***************************************************************************)
(* Claims about failed getProvider calls (checked under SpecFactory)       *)
(***************************************************************************)
\* the configurations getProvider can build a provider from
ValidConfigs == { config \in CallerConfigs : HasMatchingCredentials(config) }

\* C19: a getProvider call fails only on an empty cache, for an unsupported
\* provider value or a missing matching credential block, and leaves the cache
\* empty and allocates nothing; on an empty cache, whatever calls failed
\* before, a getProvider call with a valid configuration returns a new instance
\* built from that configuration and caches it.
C19_FailedCallLeavesCache ==
    /\ [][ (ret'.op = "getProvider" /\ ret'.outcome = "throw")
             => /\ ~HasMatchingCredentials(ret'.arg)
                /\ currentProvider = undefined
                /\ currentProvider' = undefined
                /\ nextId' = nextId ]_vars
    /\ [][ (currentProvider = undefined /\ ret'.op = "getProvider"
              /\ ret'.arg \in ValidConfigs)
             => /\ ret'.outcome = "return"
                /\ getConfig(ret'.value) = ret'.arg
                /\ ret'.value.id = nextId
                /\ currentProvider' = ret'.value ]_vars
    /\ [](currentProvider = undefined /\ nextId <= MaxInstances
            => \A config \in ValidConfigs : ENABLED GetProvider(config))

\* after a failed call for aws without its credentials the cache is empty and
\* a call with a valid configuration is possible
C19_Witness ==
    /\ ret.op = "getProvider"
    /\ ret.outcome = "throw"
    /\ ret.arg.provider = "aws"
    /\ ret.arg.credentials.aws = undefined
    /\ currentProvider = undefined
    /\ evicted # undefined
    /\ \E config \in ValidConfigs : ENABLED GetProvider(config)

====
